---- MODULE Spec2Model ----
(***************************************************************************)
(* Model of parse_quiz_content (src/docx_proc.py).                         *)
(*                                                                         *)
(* A text is a sequence of atoms.  An atom is one character, or one of the *)
(* three literal phrases the regular expressions look for, kept whole:     *)
(* "Type: Multiple choice question", "Answer key" and "Question".          *)
(* Positions are 1-based indices into the sequence; Python's 0-based       *)
(* option_start_index keeps its own value and its -1 sentinel.             *)
(***************************************************************************)
EXTENDS Integers, Sequences, FiniteSets, TLC

VARIABLES doc_content, pc, answer_key_block, answer_map, structured_data, pos

vars == <<doc_content, pc, answer_key_block, answer_map, structured_data, pos>>

(* ------------------------------------------------------------------ *)
(* Literals and character classes                                       *)
(* ------------------------------------------------------------------ *)

TYPE_MARKER == "Type: Multiple choice question"

ANSWER_KEY == "Answer key"

QUESTION == "Question"

NotFound == "N/A"

DigitSeq == <<"0", "1", "2", "3", "4", "5", "6", "7", "8", "9">>

Digits == {DigitSeq[i] : i \in 1..10}

DigitVal(c) == (CHOOSE i \in 1..10 : DigitSeq[i] = c) - 1

LowerAD == {"a", "b", "c", "d"}

LetterAD == LowerAD \cup {"A", "B", "C", "D"}

OptionPunct == {".", ")"}

WordChars ==
    Digits \cup {"_"}
    \cup {"a", "b", "c", "d", "e", "f", "g", "h", "i", "j", "k", "l", "m",
          "n", "o", "p", "q", "r", "s", "t", "u", "v", "w", "x", "y", "z"}
    \cup {"A", "B", "C", "D", "E", "F", "G", "H", "I", "J", "K", "L", "M",
          "N", "O", "P", "Q", "R", "S", "T", "U", "V", "W", "X", "Y", "Z"}

Whitespace == {" ", "\n", "\t"}

(* ------------------------------------------------------------------ *)
(* String helpers                                                       *)
(* ------------------------------------------------------------------ *)

MinOf(S) == CHOOSE x \in S : \A y \in S : x <= y

MaxOf(S) == CHOOSE x \in S : \A y \in S : y <= x

Occurrences(s, atom) == {i \in 1..Len(s) : s[i] = atom}

RECURSIVE ParseInt(_)
(* int(digits) *)
ParseInt(ds) ==
    IF ds = <<>> THEN 0
    ELSE ParseInt(SubSeq(ds, 1, Len(ds) - 1)) * 10 + DigitVal(ds[Len(ds)])

(* The last index of the run of digits that starts at i (s[i] is a digit):
   what a greedy \d+ takes. *)
DigitRunEnd(s, i) ==
    LET stops == {j \in i..Len(s) : s[j] \notin Digits}
    IN  IF stops = {} THEN Len(s) ELSE MinOf(stops) - 1

RECURSIVE Split(_, _)
(* str.split(sep) with a literal separator: one part more than separators. *)
Split(s, sep) ==
    IF Occurrences(s, sep) = {} THEN <<s>>
    ELSE LET i == MinOf(Occurrences(s, sep))
         IN  <<SubSeq(s, 1, i - 1)>> \o Split(SubSeq(s, i + 1, Len(s)), sep)

RECURSIVE LStrip(_)
LStrip(s) ==
    IF s = <<>> \/ s[1] \notin Whitespace THEN s ELSE LStrip(Tail(s))

RECURSIVE RStrip(_)
RStrip(s) ==
    IF s = <<>> \/ s[Len(s)] \notin Whitespace THEN s
    ELSE RStrip(SubSeq(s, 1, Len(s) - 1))

(* str.strip(): leading and trailing whitespace removed. *)
Strip(s) == RStrip(LStrip(s))

(* str.splitlines(): pieces between newlines, no empty piece after a final
   newline, no piece at all for the empty string. *)
SplitLines(s) ==
    LET parts == Split(s, "\n")
    IN  IF parts[Len(parts)] = <<>> THEN SubSeq(parts, 1, Len(parts) - 1)
        ELSE parts

RECURSIVE Join(_, _)
(* sep.join(parts) *)
Join(parts, sep) ==
    IF parts = <<>> THEN <<>>
    ELSE IF Len(parts) = 1 THEN parts[1]
    ELSE parts[1] \o <<sep>> \o Join(Tail(parts), sep)

(* seq[a:b] for 0 <= a <= b *)
PySlice(seq, a, b) ==
    LET hi == IF b < Len(seq) THEN b ELSE Len(seq)
    IN  SubSeq(seq, a + 1, hi)

(* ------------------------------------------------------------------ *)
(* 1. The three patterns                                                *)
(* ------------------------------------------------------------------ *)

(* ANSWER_REGEX (\d+)\.([a-d]) matches starting at i.  A shorter run of
   digits is followed by a digit, never by the dot, so only the whole run
   can precede the dot. *)
AnswerMatchAt(s, i) ==
    /\ s[i] \in Digits
    /\ LET j == DigitRunEnd(s, i)
       IN  /\ j + 2 <= Len(s)
           /\ s[j + 1] = "."
           /\ s[j + 2] \in LowerAD

(* re.finditer(ANSWER_REGEX, ...): the leftmost match at or after from,
   0 when there is none. *)
NextAnswerMatch(s, from) ==
    LET starts == {i \in from..Len(s) : AnswerMatchAt(s, i)}
    IN  IF starts = {} THEN 0 ELSE MinOf(starts)

(* "Question (\d+) " matches starting at j: the phrase, one space, a run of
   digits, one space. *)
QuestionHeadAt(s, j) ==
    /\ j + 3 <= Len(s)
    /\ s[j] = QUESTION
    /\ s[j + 1] = " "
    /\ s[j + 2] \in Digits
    /\ LET d == DigitRunEnd(s, j + 2)
       IN  d + 1 <= Len(s) /\ s[d + 1] = " "

(* The lookahead (?=Type: Multiple choice question|Answer key|$) holds at e.
   Without re.MULTILINE, $ holds at the end and before a final newline. *)
BoundaryAt(s, e) ==
    \/ e = Len(s) + 1
    \/ /\ e <= Len(s)
       /\ \/ s[e] = TYPE_MARKER
          \/ s[e] = ANSWER_KEY
          \/ e = Len(s) /\ s[e] = "\n"

NoMatch == [found |-> FALSE, start |-> 0, head |-> 0, number |-> <<>>,
            body |-> <<>>, end |-> 0]

(* One step of re.finditer(QUESTION_REGEX, doc_content): the leftmost start
   marker at or after from, then lazily the first "Question <digits> " that
   follows it anywhere, then lazily the body up to the first boundary. *)
QuestionMatch(s, from) ==
    LET marks == {i \in from..Len(s) : s[i] = TYPE_MARKER}
    IN  IF marks = {} THEN NoMatch
        ELSE LET i     == MinOf(marks)
                 heads == {j \in (i + 1)..Len(s) : QuestionHeadAt(s, j)}
             IN  IF heads = {} THEN NoMatch
                 ELSE LET j == MinOf(heads)
                          d == DigitRunEnd(s, j + 2)
                          k == d + 2
                          e == MinOf({x \in k..(Len(s) + 1) : BoundaryAt(s, x)})
                      IN  [found |-> TRUE, start |-> i, head |-> j,
                           number |-> SubSeq(s, j + 2, d),
                           body |-> SubSeq(s, k, e - 1), end |-> e]

(* re.match(OPTION_PREFIX_PATTERN, line):
   ^\s*([a-dA-D]{1}[\.\)]|\d{1}[\.\)]|\w{3,4})$ *)
OptionPrefixMatch(line) ==
    LET t == LStrip(line)
    IN  \/ Len(t) = 2 /\ t[1] \in LetterAD /\ t[2] \in OptionPunct
        \/ Len(t) = 2 /\ t[1] \in Digits /\ t[2] \in OptionPunct
        \/ Len(t) \in 3..4 /\ \A i \in 1..Len(t) : t[i] \in WordChars

(* ------------------------------------------------------------------ *)
(* 2. Extract answers                                                   *)
(* ------------------------------------------------------------------ *)

AnswerKeyBlock_WholeOnMiss(doc) ==
    LET parts == Split(doc, ANSWER_KEY)
    IN  IF Len(parts) = 2 THEN parts[2] ELSE doc

(* _, answer_key_block = doc_content.split("Answer key"): unpacking anything
   but two parts raises ValueError, and the handler leaves "". *)
AnswerKeyBlock(doc) ==
    LET parts == Split(doc, ANSWER_KEY)
    IN  IF Len(parts) = 2 THEN parts[2] ELSE <<>>

EmptyMap == [n \in {} |-> NotFound]

RecordAnswer_FirstWins(m, n, letter) ==
    IF n \in DOMAIN m THEN m
    ELSE [x \in DOMAIN m \cup {n} |-> IF x = n THEN letter ELSE m[x]]

(* answer_map[q_num] = answer_letter *)
RecordAnswer(m, n, letter) ==
    [x \in DOMAIN m \cup {n} |-> IF x = n THEN letter ELSE m[x]]

RECURSIVE ScanAnswers(_, _, _)
(* for match in re.finditer(ANSWER_REGEX, answer_key_block, re.DOTALL) *)
ScanAnswers(block, from, m) ==
    LET i == NextAnswerMatch(block, from)
    IN  IF i = 0 THEN m
        ELSE LET j == DigitRunEnd(block, i)
             IN  ScanAnswers(block, j + 3,
                     RecordAnswer(m, ParseInt(SubSeq(block, i, j)), block[j + 2]))

(* answer_map.get(q_num, 'N/A') *)
AnswerLookup(m, n) == IF n \in DOMAIN m THEN m[n] ELSE NotFound

(* ------------------------------------------------------------------ *)
(* 3. Segment one block body                                            *)
(* ------------------------------------------------------------------ *)

RECURSIVE StripEach(_)
StripEach(ls) ==
    IF ls = <<>> THEN <<>> ELSE <<Strip(ls[1])>> \o StripEach(Tail(ls))

NonEmpty(l) == l # <<>>

(* lines = [line.strip() for line in body.splitlines() if line.strip()],
   body being match.group(2).strip() *)
BodyLines(group2) ==
    SelectSeq(StripEach(SplitLines(Strip(group2))), NonEmpty)

ScanOptionStart_FromTop(lines) ==
    LET n    == Len(lines)
        hits == {i \in 0..(n - 1) : OptionPrefixMatch(lines[i + 1])}
    IN  IF n >= 4 /\ hits # {} THEN MinOf(hits) ELSE -1

(* The loop over range(len(lines) - 4, len(lines)): the first index of the
   window whose line matches, -1 when none does or there are under 4 lines. *)
ScanOptionStart(lines) ==
    LET n    == Len(lines)
        hits == {i \in (n - 4)..(n - 1) : OptionPrefixMatch(lines[i + 1])}
    IN  IF n >= 4 /\ hits # {} THEN MinOf(hits) ELSE -1

Fallback_LastThree(lines, idx) ==
    IF idx = -1 /\ Len(lines) >= 3 THEN Len(lines) - 3 ELSE idx

(* if option_start_index == -1 and len(lines) >= 4 *)
Fallback(lines, idx) ==
    IF idx = -1 /\ Len(lines) >= 4 THEN Len(lines) - 4 ELSE idx

OptionStartIndex(lines) == Fallback(lines, ScanOptionStart(lines))

(* question_text: both branches of step 3.3 *)
QuestionText(lines, idx) ==
    IF idx # -1 THEN Strip(Join(PySlice(lines, 0, idx), "\n"))
    ELSE Strip(Join(lines, "\n"))

Options_UpTo(lines, idx) ==
    IF idx # -1 THEN PySlice(lines, 0, idx + 4) ELSE <<>>

Options_Three(lines, idx) ==
    IF idx # -1 THEN PySlice(lines, idx, idx + 3) ELSE <<>>

(* options: both branches of step 3.3 *)
Options(lines, idx) ==
    IF idx # -1 THEN PySlice(lines, idx, idx + 4) ELSE <<>>

(* The dictionary of step 3.4 for one match. *)
BuildItem(match, m) ==
    LET q_num == ParseInt(match.number)
        lines == BodyLines(match.body)
        idx   == OptionStartIndex(lines)
    IN  [q_no |-> q_num,
         question |-> QuestionText(lines, idx),
         options |-> Options(lines, idx),
         answer_letter |-> AnswerLookup(m, q_num)]

RECURSIVE InsertByNumber(_, _)
InsertByNumber(data, item) ==
    IF data = <<>> THEN <<item>>
    ELSE IF item.q_no < data[1].q_no THEN <<item>> \o data
    ELSE <<data[1]>> \o InsertByNumber(Tail(data), item)

AppendItem_Sorted(data, item) == InsertByNumber(data, item)

AppendItem_Unique(data, item) ==
    IF \E i \in 1..Len(data) : data[i].q_no = item.q_no THEN data
    ELSE Append(data, item)

(* structured_data.append({...}) *)
AppendItem(data, item) == Append(data, item)

(* ------------------------------------------------------------------ *)
(* 4. Inputs                                                            *)
(* ------------------------------------------------------------------ *)

MaxLen == 4

MaxLines == 5

(* Pieces of text a document is put together from. *)
H1  == <<TYPE_MARKER, "\n", QUESTION, " ", "1", " ">>

H12 == <<TYPE_MARKER, "\n", QUESTION, " ", "1", "2", " ">>

H0  == <<TYPE_MARKER, "\n", QUESTION, " ", "0", " ">>

(* A header whose integer ends its paragraph. *)
HN  == <<TYPE_MARKER, "\n", QUESTION, " ", "1", "\n">>

AK  == <<ANSWER_KEY, "\n">>

E1a == <<"1", ".", "a", "\n">>

E1b == <<"1", ".", "b", "\n">>

E12c == <<"1", "2", ".", "c", "\n">>

E1e == <<"1", ".", "e", "\n">>

Fragments == {H1, H12, HN, AK, E1a, E1b, E12c, E1e}

(* Raw lines of a question body, before trimming. *)
LineSamples ==
    { <<" ", "a", ".">>,
      <<"1", ")">>,
      <<"G", "h", "k">>,
      <<"x", "-", "y">>,
      <<"W", "h", "a", "t", "s">> }

RECURSIVE Flatten(_)
Flatten(fs) == IF fs = <<>> THEN <<>> ELSE fs[1] \o Flatten(Tail(fs))

RECURSIVE AsParagraphs(_)
(* '\n\n'.join(full_text) of read_docx_to_string, with a final newline. *)
AsParagraphs(ls) ==
    IF ls = <<>> THEN <<>>
    ELSE IF Len(ls) = 1 THEN ls[1] \o <<"\n">>
    ELSE ls[1] \o <<"\n", "\n">> \o AsParagraphs(Tail(ls))

SeqsUpTo(S, n) == UNION {[1..k -> S] : k \in 0..n}

(* Documents made of headers, answer-key markers and answer entries. *)
ScanInputs == {Flatten(fs) : fs \in SeqsUpTo(Fragments, MaxLen)}

(* Documents made of one question whose body is a list of sample lines. *)
SegInputs == {H0 \o AsParagraphs(ls) : ls \in SeqsUpTo(LineSamples, MaxLines)}

(* ------------------------------------------------------------------ *)
(* 5. parse_quiz_content as a state machine                             *)
(* ------------------------------------------------------------------ *)

Init ==
    /\ doc_content \in ScanInputs \cup SegInputs
    /\ pc = "start"
    /\ answer_key_block = <<>>
    /\ answer_map = EmptyMap
    /\ structured_data = <<>>
    /\ pos = 1

(* if not doc_content: return [] *)
EarlyReturn ==
    /\ pc = "start"
    /\ doc_content = <<>>
    /\ pc' = "done"
    /\ UNCHANGED <<doc_content, answer_key_block, answer_map, structured_data, pos>>

(* Step 2: the split and the whole loop over the answer entries. *)
ExtractAnswers ==
    /\ pc = "start"
    /\ doc_content # <<>>
    /\ answer_key_block' = AnswerKeyBlock(doc_content)
    /\ answer_map' = ScanAnswers(answer_key_block', 1, EmptyMap)
    /\ pc' = "questions"
    /\ UNCHANGED <<doc_content, structured_data, pos>>

(* One iteration of the loop of step 3. *)
ProcessQuestion ==
    /\ pc = "questions"
    /\ LET match == QuestionMatch(doc_content, pos)
       IN  /\ match.found
           /\ structured_data' =
                  AppendItem(structured_data, BuildItem(match, answer_map))
           /\ pos' = match.end
    /\ UNCHANGED <<doc_content, pc, answer_key_block, answer_map>>

(* The iterator is exhausted: return structured_data *)
Return ==
    /\ pc = "questions"
    /\ ~QuestionMatch(doc_content, pos).found
    /\ pc' = "done"
    /\ UNCHANGED <<doc_content, answer_key_block, answer_map, structured_data, pos>>

Next == EarlyReturn \/ ExtractAnswers \/ ProcessQuestion \/ Return

Spec == Init /\ [][Next]_vars

(* ------------------------------------------------------------------ *)
(* 6. The function as a whole                                           *)
(* ------------------------------------------------------------------ *)

RECURSIVE AllMatches(_, _)
(* Every match re.finditer(QUESTION_REGEX, doc_content) yields, in order. *)
AllMatches(s, from) ==
    LET match == QuestionMatch(s, from)
    IN  IF match.found THEN <<match>> \o AllMatches(s, match.end) ELSE <<>>

RECURSIVE BuildAll(_, _)
BuildAll(ms, m) ==
    IF ms = <<>> THEN <<>>
    ELSE <<BuildItem(ms[1], m)>> \o BuildAll(Tail(ms), m)

(* The value parse_quiz_content(doc) returns. *)
ParseQuizContent(doc) ==
    IF doc = <<>> THEN <<>>
    ELSE BuildAll(AllMatches(doc, 1),
                  ScanAnswers(AnswerKeyBlock(doc), 1, EmptyMap))

(* ------------------------------------------------------------------ *)
(* 7. Properties                                                        *)
(* ------------------------------------------------------------------ *)

Markers == Occurrences(doc_content, ANSWER_KEY)

(* The text after the first "Answer key". *)
TrailingSection ==
    IF Markers = {} THEN <<>>
    ELSE SubSeq(doc_content, MinOf(Markers) + 1, Len(doc_content))

LeadingSection ==
    IF Markers = {} THEN doc_content
    ELSE SubSeq(doc_content, 1, MinOf(Markers) - 1)

Scanned == AllMatches(doc_content, 1)

Items == 1..Len(structured_data)

(* C1: with more than one "Answer key" in the document, the answers are
   those of the text after the first one. *)
C1_FirstMarkerDelimits ==
    (pc = "done" /\ Cardinality(Markers) > 1) =>
        LET m == ScanAnswers(TrailingSection, 1, EmptyMap)
        IN  \A i \in Items :
                structured_data[i].answer_letter =
                    AnswerLookup(m, structured_data[i].q_no)

KeySuffix == AK \o E12c \o E1a

SameQuestion(x, y) ==
    /\ x.q_no = y.q_no
    /\ x.question = y.question
    /\ x.options = y.options

(* C2: a document without "Answer key" gives an empty answer mapping, the
   parse completes with every answer 'N/A', and number, question text and
   options are those of the same document with a key section appended. *)
C2_NoMarkerAllNotFound ==
    Markers = {} =>
        /\ answer_map = EmptyMap
        /\ pc = "done" =>
            /\ \A i \in Items : structured_data[i].answer_letter = NotFound
            /\ LET keyed == ParseQuizContent(doc_content \o KeySuffix)
               IN  /\ Len(keyed) = Len(structured_data)
                   /\ \A i \in Items : SameQuestion(structured_data[i], keyed[i])

C2_Witness ==
    /\ pc = "done"
    /\ Markers = {}
    /\ Len(structured_data) = 1
    /\ Len(structured_data[1].options) = 4
    /\ structured_data[1].question # <<>>

(* C3: the result has one item per block the scanner finds, in the order
   found, each with the letter the mapping holds for its number or 'N/A'. *)
C3_OneItemPerBlockInOrder ==
    LET sc == Scanned IN
    pc = "done" =>
        /\ Len(structured_data) = Len(sc)
        /\ \A i \in Items :
            LET n == ParseInt(sc[i].number)
            IN  /\ structured_data[i].q_no = n
                /\ n \in DOMAIN answer_map =>
                       structured_data[i].answer_letter = answer_map[n]
                /\ n \notin DOMAIN answer_map =>
                       structured_data[i].answer_letter = NotFound

C3_Witness ==
    /\ pc = "done"
    /\ Len(structured_data) = 2
    /\ structured_data[1].q_no > structured_data[2].q_no
    /\ structured_data[1].answer_letter = NotFound
    /\ structured_data[2].answer_letter = "a"

(* An answer entry of the text t: a maximal run of digits i..j, a dot, one
   letter a-d. *)
EntryAt(t, i, j) ==
    /\ 1 <= i /\ i <= j /\ j + 2 <= Len(t)
    /\ \A k \in i..j : t[k] \in Digits
    /\ i = 1 \/ t[i - 1] \notin Digits
    /\ t[j + 1] = "."
    /\ t[j + 2] \in {"a", "b", "c", "d"}

Entries(t) ==
    LET ds == {k \in 1..Len(t) : t[k] \in Digits}
    IN  {e \in ds \X ds : EntryAt(t, e[1], e[2])}

EntryNumber(t, e) == ParseInt(SubSeq(t, e[1], e[2]))

(* C4: with one "Answer key" (or none), the mapping holds exactly the
   numbers of the entries after the marker, each with the letter of its
   rightmost entry there; nothing before the marker and no entry with
   another letter adds to it. *)
C4_MapFromTrailingSection ==
    (pc = "done" /\ Cardinality(Markers) <= 1) =>
        LET t  == TrailingSection
            es == Entries(t)
        IN  /\ DOMAIN answer_map = {EntryNumber(t, e) : e \in es}
            /\ \A n \in DOMAIN answer_map :
                LET last == MaxOf({e[1] : e \in {x \in es : EntryNumber(t, x) = n}})
                    e    == CHOOSE x \in es : x[1] = last
                IN  answer_map[n] = t[e[2] + 2]

C4_Witness ==
    /\ pc = "done"
    /\ Cardinality(Markers) = 1
    /\ Entries(LeadingSection) # {}
    /\ \E e \in Entries(TrailingSection) : TrailingSection[e[2] + 2] = "a"
    /\ DOMAIN answer_map = {1}
    /\ answer_map[1] = "b"

(* C5 as stated: the numbers of a result are positive and pairwise
   distinct. *)
C5_NumbersPositiveDistinct ==
    pc = "done" =>
        /\ \A i \in Items : structured_data[i].q_no > 0
        /\ \A i, j \in Items :
               i # j => structured_data[i].q_no # structured_data[j].q_no

(* C5 amended: the numbers are natural numbers, and a number occurs in the
   result as many times as blocks carry it. *)
C5_NumbersFollowBlocks ==
    LET sc == Scanned IN
    pc = "done" =>
        /\ \A i \in Items : structured_data[i].q_no \in Nat
        /\ \A k \in 1..Len(sc) :
            LET n == ParseInt(sc[k].number)
            IN  Cardinality({i \in Items : structured_data[i].q_no = n})
                = Cardinality({j \in 1..Len(sc) :
                                   ParseInt(sc[j].number) = n})

C5_Witness ==
    /\ pc = "done"
    /\ \E i, j \in Items :
           i < j /\ structured_data[i].q_no = structured_data[j].q_no

(* C6: a block body with fewer than 4 non-empty trimmed lines gives no
   options and the lines, joined by newlines, as question text. *)
C6_ShortBodyNoOptions ==
    LET sc == Scanned IN
    pc = "done" =>
        /\ Len(structured_data) = Len(sc)
        /\ \A i \in Items :
            LET lines == BodyLines(sc[i].body)
            IN  Len(lines) < 4 =>
                    /\ structured_data[i].options = <<>>
                    /\ structured_data[i].question = Join(lines, "\n")

C6_Witness ==
    LET sc == Scanned IN
    /\ pc = "done"
    /\ \E i \in Items :
           /\ Len(BodyLines(sc[i].body)) = 3
           /\ structured_data[i].options = <<>>

(* C7: no item has more than 4 options. *)
C7_AtMostFourOptions ==
    \A i \in Items : Len(structured_data[i].options) \in 0..4

C7_Witness ==
    LET sc == Scanned IN
    /\ pc = "done"
    /\ \E i \in Items :
           /\ Len(BodyLines(sc[i].body)) > 4
           /\ Len(structured_data[i].options) = 4

(* The option-marker pattern as C8 words it: letter and punctuation, digit
   and punctuation, or 3-4 characters none of which is whitespace. *)
MarkerAsClaimed(line) ==
    \/ Len(line) = 2 /\ line[1] \in LetterAD /\ line[2] \in OptionPunct
    \/ Len(line) = 2 /\ line[1] \in Digits /\ line[2] \in OptionPunct
    \/ /\ Len(line) \in 3..4
       /\ \A i \in 1..Len(line) :
              line[i] \notin Whitespace \cup {TYPE_MARKER, ANSWER_KEY, QUESTION}

(* The same with 3-4 word characters (letters, digits, underscore). *)
MarkerAsAmended(line) ==
    \/ Len(line) = 2 /\ line[1] \in LetterAD /\ line[2] \in OptionPunct
    \/ Len(line) = 2 /\ line[1] \in Digits /\ line[2] \in OptionPunct
    \/ Len(line) \in 3..4 /\ \A i \in 1..Len(line) : line[i] \in WordChars

(* sp (a count of lines) is the split point C8 describes for n lines, hits
   being the 0-based indices of the lines that are option markers. *)
IsSplitPoint(n, sp, hits) ==
    LET window == (n - 4)..(n - 1)
    IN  /\ sp \in window
        /\ \/ sp \in hits /\ \A k \in window : k < sp => k \notin hits
           \/ window \cap hits = {} /\ sp = n - 4

SplitAs(item, lines, hits) ==
    \E sp \in 0..Len(lines) :
        /\ IsSplitPoint(Len(lines), sp, hits)
        /\ item.question = Join(SubSeq(lines, 1, sp), "\n")
        /\ item.options = SubSeq(lines, sp + 1, Len(lines))
        /\ Len(item.options) <= 4

(* C8 as stated: with 4 lines or more, the split is at the first line of the
   last-4 window that is an option marker as the claim words it, else at
   n - 4. *)
C8_SplitAsClaimed ==
    LET sc == Scanned IN
    pc = "done" =>
        \A i \in Items :
            LET lines == BodyLines(sc[i].body)
                hits  == {k \in 0..(Len(lines) - 1) : MarkerAsClaimed(lines[k + 1])}
            IN  Len(lines) >= 4 => SplitAs(structured_data[i], lines, hits)

(* C8 amended: the same, the third form of marker being a whole line of 3-4
   word characters. *)
C8_SplitAtFirstMarker ==
    LET sc == Scanned IN
    pc = "done" =>
        /\ Len(structured_data) = Len(sc)
        /\ \A i \in Items :
            LET lines == BodyLines(sc[i].body)
                hits  == {k \in 0..(Len(lines) - 1) : MarkerAsAmended(lines[k + 1])}
            IN  Len(lines) >= 4 => SplitAs(structured_data[i], lines, hits)

C8_Witness ==
    LET sc == Scanned IN
    /\ pc = "done"
    /\ \E i \in Items :
        LET lines == BodyLines(sc[i].body)
        IN  /\ Len(lines) = 5
            /\ ~MarkerAsAmended(lines[2])
            /\ MarkerAsAmended(lines[3])
            /\ Len(structured_data[i].options) = 3

(* The block C9 gives the start marker at i: the first "Question <integer>"
   before the next start marker, and as body the text after the integer up
   to the next start marker, the next "Answer key" or the end. *)
NextStart(s, i) ==
    LET later == {x \in (i + 1)..Len(s) : s[x] = TYPE_MARKER}
    IN  IF later = {} THEN Len(s) + 1 ELSE MinOf(later)

ClaimedHeads(s, i) ==
    {j \in (i + 1)..(NextStart(s, i) - 1) :
        /\ j + 2 <= Len(s)
        /\ s[j] = QUESTION
        /\ s[j + 1] = " "
        /\ s[j + 2] \in Digits}

ClaimedBlock(s, i) ==
    LET j == MinOf(ClaimedHeads(s, i))
        d == DigitRunEnd(s, j + 2)
        e == MinOf({x \in (d + 1)..(Len(s) + 1) :
                       x = Len(s) + 1 \/ s[x] \in {TYPE_MARKER, ANSWER_KEY}})
    IN  [number |-> SubSeq(s, j + 2, d), body |-> SubSeq(s, d + 1, e - 1)]

RECURSIVE ClaimedBlocks(_, _)
ClaimedBlocks(s, from) ==
    LET marks == {i \in from..Len(s) : s[i] = TYPE_MARKER}
    IN  IF marks = {} THEN <<>>
        ELSE LET i == MinOf(marks)
             IN  (IF ClaimedHeads(s, i) = {} THEN <<>> ELSE <<ClaimedBlock(s, i)>>)
                 \o ClaimedBlocks(s, i + 1)

(* C9: every start marker followed, before the next start marker, by
   "Question" and an integer gives one item with that integer, whose body is
   the text from the integer to the next start marker, "Answer key" or end;
   the items are those blocks, in order. *)
C9_BlockPerStartMarker ==
    pc = "done" =>
        LET blocks == ClaimedBlocks(doc_content, 1)
        IN  /\ Len(structured_data) = Len(blocks)
            /\ \A i \in 1..Len(blocks) :
                LET lines == BodyLines(blocks[i].body)
                    idx   == OptionStartIndex(lines)
                IN  /\ structured_data[i].q_no = ParseInt(blocks[i].number)
                    /\ structured_data[i].question = QuestionText(lines, idx)
                    /\ structured_data[i].options = Options(lines, idx)

(* C10: the lines of question_text followed by the options are the trimmed
   non-empty lines of the block body, all of them and in order. *)
C10_NoLineLost ==
    LET sc == Scanned IN
    pc = "done" =>
        /\ Len(structured_data) = Len(sc)
        /\ \A i \in Items :
               SplitLines(structured_data[i].question) \o structured_data[i].options
               = BodyLines(sc[i].body)

C10_Witness ==
    LET sc == Scanned IN
    /\ pc = "done"
    /\ \E i \in Items :
        LET lines == BodyLines(sc[i].body)
        IN  /\ Len(lines) = 5
            /\ Len(SplitLines(structured_data[i].question)) = 2
            /\ structured_data[i].options = SubSeq(lines, 3, 5)

====
